---------------------------- MODULE Spec2Model ----------------------------
(***************************************************************************)
(* Process manager of simulation.py: the Process class (validation, log    *)
(* file, start, stop with terminate / bounded wait / kill) and the         *)
(* ProcessManager registry (startProcessFromFileName, stopProcess,         *)
(* stopAllProcesses).                                                      *)
(*                                                                         *)
(* Paths are absolute and are sequences of components; a component is the  *)
(* sequence of its '.'-separated segments, so "app.exe" is <<"app","exe">>,*)
(* "." is <<"","">>, ".." is <<"","","">> and an empty component (a        *)
(* doubled separator) is <<"">>.                                           *)
(***************************************************************************)
EXTENDS Integers, Sequences, FiniteSets, TLC

\* ---------------------------------------------------------------- bounds
\* Number of Process objects whose constructor completed.
MaxProcs == 2

\* ------------------------------------------------------ program constants
\* timeout handed to Popen.wait in Process.stop
WaitTimeout == 20

\* Process._STD_FILE_EXT without its leading dot
STD_FILE_EXT == "log"

\* ------------------------------------------------------------ environment
CurDir == <<"", "">>
ParDir == <<"", "", "">>
Work == <<"work">>
Sim == <<"sim">>
AppExe == <<"app", "exe">>

\* os.getcwd()
Cwd == <<Work>>

\* directories of the file system (none is created or removed by the program)
Dirs == { <<>>, <<Work>>, <<Work, Sim>> }

\* regular files present before the first call, with what they hold
InitialFiles ==
    ( <<Work, Sim, AppExe>> :> "program" ) @@
    ( <<Work, Sim, <<"tool">>>> :> "program" ) @@
    ( <<Work, <<"app", "log">>>> :> "text" )

\* the filename arguments callers pass
FileNames ==
    { <<Work, Sim, CurDir, AppExe>>,
      <<Work, Sim, <<"ghost", "exe">>>>,
      <<Work, Sim, <<"tool">>>>,
      <<Work, <<"app", "log">>>> }

\* workingDirectory=None
NoDir == [isNone |-> TRUE, path |-> <<>>]

SomeDir(p) == [isNone |-> FALSE, path |-> p]

\* the workingDirectory arguments callers pass
WorkingDirs ==
    { NoDir,
      SomeDir(<<Work, Sim, ParDir, Sim, <<"">>>>),
      SomeDir(<<Work, <<"missing">>>>),
      SomeDir(<<Work, Sim, AppExe>>) }

\* the process ids callers pass
Ids == { "JCP", "JGP" }

\* seconds a process takes to exit once it is asked to terminate
ExitDelays == { WaitTimeout - 1, WaitTimeout + 1 }

\* ------------------------------------------------------------------ state
VARIABLES
    files,             \* regular files of the file system: path -> content
    procs,             \* every constructed Process object, by identity
    processContainer,  \* ProcessManager.processContainer, in insertion order
    pc,                \* where the manager's caller is inside stop()
    frame,             \* locals of the stop call in progress
    ret                \* what the last completed call returned or raised

vars == <<files, procs, processContainer, pc, frame, ret>>

\* ------------------------------------------------------------ os.path
RECURSIVE normcomps(_, _)
normcomps(todo, acc) ==
    IF todo = <<>> THEN acc
    ELSE LET c == Head(todo) IN
         IF c = <<"">> \/ c = CurDir
         THEN normcomps(Tail(todo), acc)
         ELSE IF c = ParDir
         THEN normcomps(Tail(todo),
                        IF acc = <<>> THEN <<>> ELSE SubSeq(acc, 1, Len(acc) - 1))
         ELSE normcomps(Tail(todo), Append(acc, c))

normpath(path) == normcomps(path, <<>>)

exists(fs, path) == normpath(path) \in Dirs \cup DOMAIN fs

basename(path) == IF path = <<>> THEN <<"">> ELSE path[Len(path)]

join(dir, component) == Append(dir, component)

\* str.split('.') of a component: its segments
split(name) == name

\* ----------------------------------------------------------------- errors
\* an exception object or an error message: its class, its text and what the
\* text is formatted with
Error(cls, text, path, id, detail) ==
    [cls |-> cls, text |-> text, path |-> path, id |-> id, detail |-> detail]

\* errorMsg = None
None == Error("None", "", <<>>, "", "")

\* ---------------------------------------------------------- class Process
\* mutant of validateFileName: the existence test is missing
validateFileName_NoCheck(fs, filename) ==
    [raised |-> None,
     filename |-> normpath(filename),
     name |-> basename(normpath(filename))]

\* Process.__validateFileName: the exception it raises (None when it returns)
\* and the _filename and _name it leaves
validateFileName(fs, filename) ==
    IF ~ exists(fs, filename)
    THEN [raised |-> Error("FileNotFoundError", "File does not exists", filename, "", ""),
          filename |-> filename,
          name |-> <<>>]
    ELSE [raised |-> None,
          filename |-> normpath(filename),
          name |-> basename(normpath(filename))]

\* Process.__validateWorkingDirectory
validateWorkingDirectory(fs, workingDirectory) ==
    IF ~ exists(fs, workingDirectory)
    THEN [raised |-> Error("FileNotFoundError", "Working directory does not exists",
                           workingDirectory, "", ""),
          workingDirectory |-> workingDirectory]
    ELSE [raised |-> None,
          workingDirectory |-> normpath(workingDirectory)]

\* the path Process.__configureStdFile opens, for a name of two segments
stdFileName(name, workingDirectory) ==
    normpath(join(workingDirectory, <<split(name)[1], STD_FILE_EXT>>))

\* open(std_filename, 'w'): raises when the directory is no directory or the
\* path is a directory
openRaises(fs, path) ==
    \/ path \in Dirs
    \/ path = <<>>
    \/ SubSeq(path, 1, Len(path) - 1) \notin Dirs

\* Process.__configureStdFile: the unpacking of split('.') raises ValueError
\* unless the name has exactly two segments; open creates or truncates
configureStdFile(fs, name, workingDirectory) ==
    IF Len(split(name)) # 2
    THEN [raised |-> Error("ValueError", "unpack", <<name>>, "", ""),
          stdFile |-> <<>>,
          files |-> fs]
    ELSE LET std_filename == stdFileName(name, workingDirectory) IN
         IF openRaises(fs, std_filename)
         THEN [raised |-> Error("OSError", "open", std_filename, "", ""),
               stdFile |-> <<>>,
               files |-> fs]
         ELSE [raised |-> None,
               stdFile |-> std_filename,
               files |-> [p \in DOMAIN fs \cup {std_filename} |->
                             IF p = std_filename THEN "" ELSE fs[p]]]

\* a Process object and the operating-system process behind it; stdFileClosed
\* tells whether close() was called on the file object _stdFile
NewProcess(filename, id, name, workingDirectory, stdFile) ==
    [filename |-> filename,
     id |-> id,
     name |-> name,
     workingDirectory |-> workingDirectory,
     stdFile |-> stdFile,
     stdFileClosed |-> FALSE,
     processHandler |-> "None",
     calls |-> <<>>,
     os |-> "none"]

\* the object of a constructor that raised: nothing refers to it
NoProcess == NewProcess(<<>>, "", <<>>, <<>>, <<>>)

\* mutant of ProcessInit: the warning is logged outside the if, for a given
\* working directory too
ProcessInit_WarnsAlways(fs, filename, id, workingDirectory) ==
    LET f == validateFileName(fs, filename) IN
    IF f.raised # None
    THEN [raised |-> f.raised, process |-> NoProcess, files |-> fs, log |-> <<>>]
    ELSE
    LET w == IF workingDirectory.isNone
             THEN [raised |-> None, workingDirectory |-> Cwd]
             ELSE validateWorkingDirectory(fs, workingDirectory.path)
        warned == <<"warning: no working directory">>
    IN
    IF w.raised # None
    THEN [raised |-> w.raised, process |-> NoProcess, files |-> fs, log |-> warned]
    ELSE
    LET s == configureStdFile(fs, f.name, w.workingDirectory) IN
    IF s.raised # None
    THEN [raised |-> s.raised, process |-> NoProcess, files |-> s.files, log |-> warned]
    ELSE [raised |-> None,
          process |-> NewProcess(f.filename, id, f.name, w.workingDirectory, s.stdFile),
          files |-> s.files,
          log |-> Append(warned, "info: new process created")]

\* Process.__init__: the exception raised (None when the object is built),
\* the object, the file system afterwards and the messages logged
ProcessInit(fs, filename, id, workingDirectory) ==
    LET f == validateFileName(fs, filename) IN
    IF f.raised # None
    THEN [raised |-> f.raised, process |-> NoProcess, files |-> fs, log |-> <<>>]
    ELSE
    LET w == IF workingDirectory.isNone
             THEN [raised |-> None, workingDirectory |-> Cwd]
             ELSE validateWorkingDirectory(fs, workingDirectory.path)
        warned == IF workingDirectory.isNone THEN <<"warning: no working directory">>
                  ELSE <<>>
    IN
    IF w.raised # None
    THEN [raised |-> w.raised, process |-> NoProcess, files |-> fs, log |-> warned]
    ELSE
    LET s == configureStdFile(fs, f.name, w.workingDirectory) IN
    IF s.raised # None
    THEN [raised |-> s.raised, process |-> NoProcess, files |-> s.files, log |-> warned]
    ELSE [raised |-> None,
          process |-> NewProcess(f.filename, id, f.name, w.workingDirectory, s.stdFile),
          files |-> s.files,
          log |-> Append(warned, "info: new process created")]

\* subprocess.Popen(filename, cwd=...): raises when the file is no program or
\* cwd is no directory
popenRaises(fs, process) ==
    \/ process.filename \notin DOMAIN fs
    \/ fs[process.filename] # "program"
    \/ process.workingDirectory \notin Dirs

\* mutant of start: the except branch leaves errorMsg None
start_SwallowsError(fs, process) ==
    IF popenRaises(fs, process)
    THEN [errorMsg |-> None,
          process |-> [process EXCEPT !.processHandler = "None"],
          log |-> <<>>]
    ELSE [errorMsg |-> None,
          process |-> [process EXCEPT !.processHandler = "Popen", !.os = "running"],
          log |-> <<"info: process started">>]

\* Process.start: the errorMsg returned, the object afterwards, the messages
start(fs, process) ==
    IF popenRaises(fs, process)
    THEN [errorMsg |-> Error("OSError", "spawn", process.filename, "", ""),
          process |-> [process EXCEPT !.processHandler = "None"],
          log |-> <<>>]
    ELSE [errorMsg |-> None,
          process |-> [process EXCEPT !.processHandler = "Popen", !.os = "running"],
          log |-> <<"info: process started">>]

\* Popen.terminate: the call is recorded; an exited process gets no signal
terminate(process) == [process EXCEPT !.calls = Append(@, "terminate")]

\* mutant of wait: wait(0), the timeout is lost
wait_ZeroTimeout(process, delay) ==
    IF process.os = "exited"
    THEN [raised |-> FALSE,
          exitDelay |-> 0,
          process |-> [process EXCEPT !.calls = Append(@, "wait")]]
    ELSE IF delay <= 0
    THEN [raised |-> FALSE,
          exitDelay |-> delay,
          process |-> [process EXCEPT !.calls = Append(@, "wait"), !.os = "exited"]]
    ELSE [raised |-> TRUE,
          exitDelay |-> delay,
          process |-> [process EXCEPT !.calls = Append(@, "wait")]]

\* mutant of wait: wait() without a timeout, the call blocks until the exit
wait_NoTimeout(process, delay) ==
    IF process.os = "exited"
    THEN [raised |-> FALSE,
          exitDelay |-> 0,
          process |-> [process EXCEPT !.calls = Append(@, "wait")]]
    ELSE [raised |-> FALSE,
          exitDelay |-> delay,
          process |-> [process EXCEPT !.calls = Append(@, "wait"), !.os = "exited"]]

\* Popen.wait(20) on a process that exits delay seconds after the terminate
\* signal (at once when it has exited already): TimeoutExpired is raised when
\* it has not exited within the timeout. exitDelay is the time to the exit.
wait(process, delay) ==
    IF process.os = "exited"
    THEN [raised |-> FALSE,
          exitDelay |-> 0,
          process |-> [process EXCEPT !.calls = Append(@, "wait")]]
    ELSE IF delay <= WaitTimeout
    THEN [raised |-> FALSE,
          exitDelay |-> delay,
          process |-> [process EXCEPT !.calls = Append(@, "wait"), !.os = "exited"]]
    ELSE [raised |-> TRUE,
          exitDelay |-> delay,
          process |-> [process EXCEPT !.calls = Append(@, "wait")]]

\* Popen.kill
kill(process) ==
    [process EXCEPT !.calls = Append(@, "kill"), !.os = "exited"]

\* mutant of delProcessHandler: the del statement is missing
delProcessHandler_KeepsHandle(process) == process

\* mutant of delProcessHandler: the log file is closed with the handle
delProcessHandler_ClosesStdFile(process) ==
    [process EXCEPT !.processHandler = "Deleted", !.stdFileClosed = TRUE]

\* del self._processHandler
delProcessHandler(process) == [process EXCEPT !.processHandler = "Deleted"]

\* ----------------------------------------------------- class ProcessManager
\* the dictionary processContainer as the sequence of its items
keys(container) == { container[i].id : i \in DOMAIN container }

values(container) == [i \in DOMAIN container |-> container[i].process]

getitem(container, id) ==
    container[CHOOSE i \in DOMAIN container : container[i].id = id].process

\* mutant of setitem: a new item is added whatever the keys are
setitem_Appends(container, id, process) ==
    Append(container, [id |-> id, process |-> process])

\* mutant of setitem: setdefault, an entry that exists is kept
setitem_KeepsFirst(container, id, process) ==
    IF id \in keys(container)
    THEN container
    ELSE Append(container, [id |-> id, process |-> process])

\* processContainer[id] = process
setitem(container, id, process) ==
    IF id \in keys(container)
    THEN [i \in DOMAIN container |->
             IF container[i].id = id THEN [id |-> id, process |-> process]
             ELSE container[i]]
    ELSE Append(container, [id |-> id, process |-> process])

\* mutant of pop: the whole dictionary is emptied
pop_Clears(container, id) == <<>>

\* mutant of pop: the entry is read and not removed
pop_KeepsEntry(container, id) == container

\* what processContainer.pop(id) leaves
pop(container, id) == SelectSeq(container, LAMBDA e : e.id # id)

\* what a call hands back: the Process (0 for None), the errorMsg, the
\* exception that left the call (None when it returned), the messages logged;
\* for stopProcess also the id and the time the process took to exit
Return(op, id, process, errorMsg, raised, log, exitDelay) ==
    [op |-> op, id |-> id, process |-> process, errorMsg |-> errorMsg,
     raised |-> raised, log |-> log, exitDelay |-> exitDelay]

NoFrame ==
    [op |-> "none", id |-> "", process |-> 0, todo |-> <<>>, log |-> <<>>,
     exitDelay |-> 0]

\* ProcessManager._getProcessFromFileName
_getProcessFromFileName(fs, filename, id, workingDirectory) ==
    ProcessInit(fs, filename, id, workingDirectory)

\* mutant of _startProcess: the errorMsg of start() is dropped
_startProcess_IgnoresError(fs, process) ==
    LET s == start(fs, process) IN
    [raised |-> None, process |-> s.process, log |-> s.log]

\* ProcessManager._startProcess: the AssertionError raised (None when the
\* process started), the object afterwards, the messages logged
_startProcess(fs, process) ==
    LET s == start(fs, process) IN
    [raised |-> IF s.errorMsg # None
                THEN Error("AssertionError", "could not be started",
                           <<process.name>>, "", s.errorMsg.cls)
                ELSE None,
     process |-> s.process,
     log |-> s.log]

Init ==
    /\ files = InitialFiles
    /\ procs = <<>>
    /\ processContainer = <<>>
    /\ pc = "idle"
    /\ frame = NoFrame
    /\ ret = Return("none", "", 0, None, None, <<>>, 0)

\* mutant of startProcessFromFileName: an id some Process was ever built with
\* is refused
startProcessFromFileName_UniqueOverHistory(filename, id, workingDirectory) ==
    /\ pc = "idle"
    /\ Len(procs) < MaxProcs
    /\ LET c == _getProcessFromFileName(files, filename, id, workingDirectory) IN
       IF c.raised # None
       THEN /\ files' = c.files
            /\ ret' = Return("startProcessFromFileName", "", 0, c.raised, None, c.log, 0)
            /\ UNCHANGED <<procs, processContainer, pc, frame>>
       ELSE IF \E p \in DOMAIN procs : procs[p].id = id
       THEN /\ files' = c.files
            /\ ret' = Return("startProcessFromFileName", "", 0,
                             Error("str", "id in use", <<>>, id, ""), None, c.log, 0)
            /\ UNCHANGED <<procs, processContainer, pc, frame>>
       ELSE LET s == _startProcess(c.files, c.process)
                process == Len(procs) + 1
            IN  /\ files' = c.files
                /\ procs' = Append(procs, s.process)
                /\ IF s.raised # None
                   THEN /\ ret' = Return("startProcessFromFileName", "", process,
                                         s.raised, None, c.log \o s.log, 0)
                        /\ UNCHANGED processContainer
                   ELSE /\ processContainer' =
                               setitem(processContainer, s.process.id, process)
                        /\ ret' = Return("startProcessFromFileName", "", process,
                                         None, None, c.log \o s.log, 0)
                /\ UNCHANGED <<pc, frame>>

\* ProcessManager.startProcessFromFileName
startProcessFromFileName(filename, id, workingDirectory) ==
    /\ pc = "idle"
    /\ Len(procs) < MaxProcs
    /\ LET c == _getProcessFromFileName(files, filename, id, workingDirectory) IN
       IF c.raised # None
       THEN /\ files' = c.files
            /\ ret' = Return("startProcessFromFileName", "", 0, c.raised, None, c.log, 0)
            /\ UNCHANGED <<procs, processContainer, pc, frame>>
       ELSE LET s == _startProcess(c.files, c.process)
                process == Len(procs) + 1
            IN  /\ files' = c.files
                /\ procs' = Append(procs, s.process)
                /\ IF s.raised # None
                   THEN /\ ret' = Return("startProcessFromFileName", "", process,
                                         s.raised, None, c.log \o s.log, 0)
                        /\ UNCHANGED processContainer
                   ELSE /\ processContainer' =
                               setitem(processContainer, s.process.id, process)
                        /\ ret' = Return("startProcessFromFileName", "", process,
                                         None, None, c.log \o s.log, 0)
                /\ UNCHANGED <<pc, frame>>

\* mutant of stopProcess: the else branch sets no errorMsg
stopProcess_SilentOnUnknown(id) ==
    /\ pc = "idle"
    /\ IF id \in keys(processContainer)
       THEN /\ processContainer' = pop(processContainer, id)
            /\ frame' = [op |-> "stopProcess", id |-> id,
                         process |-> getitem(processContainer, id),
                         todo |-> <<>>, log |-> <<>>, exitDelay |-> 0]
            /\ pc' = "terminate"
            /\ UNCHANGED <<files, procs, ret>>
       ELSE /\ ret' = Return("stopProcess", id, 0, None, None, <<>>, 0)
            /\ UNCHANGED <<files, procs, processContainer, pc, frame>>

\* ProcessManager.stopProcess up to the call of process.stop()
stopProcess(id) ==
    /\ pc = "idle"
    /\ IF id \in keys(processContainer)
       THEN /\ processContainer' = pop(processContainer, id)
            /\ frame' = [op |-> "stopProcess", id |-> id,
                         process |-> getitem(processContainer, id),
                         todo |-> <<>>, log |-> <<>>, exitDelay |-> 0]
            /\ pc' = "terminate"
            /\ UNCHANGED <<files, procs, ret>>
       ELSE /\ ret' = Return("stopProcess", id, 0,
                             Error("str", "No process ID with name", <<>>, id, ""),
                             None, <<>>, 0)
            /\ UNCHANGED <<files, procs, processContainer, pc, frame>>

\* mutant of stopAllProcesses: the emptiness test always passes, so an empty
\* container is looped over (no process) and cleared
stopAllProcesses_NoEmptyCheck ==
    /\ pc = "idle"
    /\ IF processContainer # <<>>
       THEN /\ frame' = [op |-> "stopAllProcesses", id |-> "",
                         process |-> Head(values(processContainer)),
                         todo |-> Tail(values(processContainer)), log |-> <<>>,
                         exitDelay |-> 0]
            /\ pc' = "terminate"
       ELSE /\ frame' = [NoFrame EXCEPT !.op = "stopAllProcesses"]
            /\ pc' = "clear"
    /\ UNCHANGED <<files, procs, processContainer, ret>>

\* ProcessManager.stopAllProcesses up to the first process.stop()
stopAllProcesses ==
    /\ pc = "idle"
    /\ IF processContainer # <<>>
       THEN /\ frame' = [op |-> "stopAllProcesses", id |-> "",
                         process |-> Head(values(processContainer)),
                         todo |-> Tail(values(processContainer)), log |-> <<>>,
                         exitDelay |-> 0]
            /\ pc' = "terminate"
            /\ UNCHANGED <<files, procs, processContainer, ret>>
       ELSE /\ ret' = Return("stopAllProcesses", "", 0,
                             Error("str", "There is no simulation process currently running to be stopped",
                                   <<>>, "", ""),
                             None, <<>>, 0)
            /\ UNCHANGED <<files, procs, processContainer, pc, frame>>

\* Process.stop, first statement: self._processHandler.terminate(); without a
\* handler the attribute access raises and the exception leaves the call
stopTerminate ==
    /\ pc = "terminate"
    /\ IF procs[frame.process].processHandler = "Popen"
       THEN /\ procs' = [procs EXCEPT ![frame.process] = terminate(@)]
            /\ pc' = "wait"
            /\ UNCHANGED <<files, processContainer, frame, ret>>
       ELSE /\ ret' = Return(frame.op, frame.id, frame.process, None,
                             Error("AttributeError", "terminate", <<>>, "", ""),
                             frame.log, 0)
            /\ pc' = "idle"
            /\ frame' = NoFrame
            /\ UNCHANGED <<files, procs, processContainer>>

\* Process.stop: self._processHandler.wait(20) and the message of the try body
stopWait(delay) ==
    /\ pc = "wait"
    /\ LET w == wait(procs[frame.process], delay) IN
       /\ procs' = [procs EXCEPT ![frame.process] = w.process]
       /\ IF w.raised
          THEN /\ pc' = "kill"
               /\ frame' = [frame EXCEPT !.exitDelay = w.exitDelay]
          ELSE /\ pc' = "del"
               /\ frame' = [frame EXCEPT !.exitDelay = w.exitDelay,
                                         !.log = Append(@, "info: process terminated")]
    /\ UNCHANGED <<files, processContainer, ret>>

\* mutant of stopKill: after the timeout the process is waited for without a
\* timeout instead of being killed
stopKill_WaitsForever ==
    /\ pc = "kill"
    /\ procs[frame.process].os = "exited"
    /\ procs' = [procs EXCEPT ![frame.process].calls = Append(@, "wait")]
    /\ pc' = "del"
    /\ UNCHANGED <<files, processContainer, frame, ret>>

\* Process.stop: the except subprocess.TimeoutExpired branch
stopKill ==
    /\ pc = "kill"
    /\ procs' = [procs EXCEPT ![frame.process] = kill(@)]
    /\ frame' = [frame EXCEPT !.log = Append(@, "info: process killed")]
    /\ pc' = "del"
    /\ UNCHANGED <<files, processContainer, ret>>

\* Process.stop, last statement, and the return to its caller: stopProcess
\* returns, stopAllProcesses goes on with the next process of its list
stopDel ==
    /\ pc = "del"
    /\ procs' = [procs EXCEPT ![frame.process] = delProcessHandler(@)]
    /\ IF frame.op = "stopProcess"
       THEN /\ ret' = Return("stopProcess", frame.id, frame.process, None, None,
                             frame.log, frame.exitDelay)
            /\ pc' = "idle"
            /\ frame' = NoFrame
       ELSE IF frame.todo # <<>>
       THEN /\ frame' = [frame EXCEPT !.process = Head(frame.todo),
                                      !.todo = Tail(frame.todo),
                                      !.exitDelay = 0]
            /\ pc' = "terminate"
            /\ UNCHANGED ret
       ELSE /\ pc' = "clear"
            /\ UNCHANGED <<frame, ret>>
    /\ UNCHANGED <<files, processContainer>>

\* mutant of stopAllClear: processContainer.clear() is missing
stopAllClear_NoClear ==
    /\ pc = "clear"
    /\ ret' = Return("stopAllProcesses", "", 0, None, None, frame.log, 0)
    /\ pc' = "idle"
    /\ frame' = NoFrame
    /\ UNCHANGED <<files, procs, processContainer>>

\* ProcessManager.stopAllProcesses after its loop: processContainer.clear()
stopAllClear ==
    /\ pc = "clear"
    /\ processContainer' = <<>>
    /\ ret' = Return("stopAllProcesses", "", 0, None, None, frame.log, 0)
    /\ pc' = "idle"
    /\ frame' = NoFrame
    /\ UNCHANGED <<files, procs>>

\* the operating system: a running process exits by itself
processExits(p) ==
    /\ procs[p].os = "running"
    /\ procs' = [procs EXCEPT ![p].os = "exited"]
    /\ UNCHANGED <<files, processContainer, pc, frame, ret>>

Next ==
    \/ \E filename \in FileNames, id \in Ids, workingDirectory \in WorkingDirs :
          startProcessFromFileName(filename, id, workingDirectory)
    \/ \E id \in Ids : stopProcess(id)
    \/ stopAllProcesses
    \/ stopTerminate
    \/ \E delay \in ExitDelays : stopWait(delay)
    \/ stopKill
    \/ stopDel
    \/ stopAllClear
    \/ \E p \in DOMAIN procs : processExits(p)

Spec == Init /\ [][Next]_vars

\* ------------------------------------------------------------ properties
\* the Process objects of a container's entries
registered(container) == { container[i].process : i \in DOMAIN container }

\* a later Process started under the same id took the entry of p
Displaced(p) ==
    \E q \in DOMAIN procs :
        /\ q > p
        /\ procs[q].id = procs[p].id
        /\ procs[q].processHandler # "None"

\* p was started successfully under id and was neither stopped nor removed
Live(p, id) ==
    /\ procs[p].id = id
    /\ procs[p].processHandler = "Popen"
    /\ procs[p].calls = <<>>
    /\ ~ Displaced(p)

\* C1: between calls, an id is a key of the mapping exactly when a Process was
\* started successfully under it and has not been stopped or removed since,
\* and the key maps to that Process.
C1_RegistryInvariant ==
    pc = "idle" =>
        \A id \in Ids :
            /\ id \in keys(processContainer) <=> \E p \in DOMAIN procs : Live(p, id)
            /\ id \in keys(processContainer) => Live(getitem(processContainer, id), id)

C1_Witness ==
    /\ pc = "idle"
    /\ \E p \in DOMAIN procs : procs[p].processHandler = "Deleted"
    /\ \E p \in DOMAIN procs : procs[p].id \in keys(processContainer)
    /\ \E id \in Ids : id \notin keys(processContainer)

\* C2: when start() fails inside startProcessFromFileName the call hands back an
\* AssertionError that names the process and the detail of the start failure,
\* the new Process is in no entry and the mapping is what it was.
C2_StartFailureKeepsRegistry ==
    [][( /\ pc = "idle"
         /\ Len(procs') = Len(procs) + 1
         /\ popenRaises(files', [procs'[Len(procs')] EXCEPT !.processHandler = "None"]) )
       => /\ ret'.op = "startProcessFromFileName"
          /\ ret'.process = Len(procs')
          /\ ret'.raised = None
          /\ ret'.errorMsg.cls = "AssertionError"
          /\ ret'.errorMsg.path = <<procs'[Len(procs')].name>>
          /\ ret'.errorMsg.detail = "OSError"
          /\ ret'.process \notin registered(processContainer')
          /\ processContainer' = processContainer]_vars

C2_Witness ==
    /\ ret.op = "startProcessFromFileName"
    /\ ret.errorMsg.cls = "AssertionError"
    /\ ret.process # 0
    /\ procs[ret.process].id \in keys(processContainer)

\* C3: stopProcess(id) for an id that is no key returns an error message that
\* names the id and changes nothing: the entries are the same and no process is
\* sent terminate or kill.
C3_StopUnknownId ==
    [][\A id \in Ids :
          (stopProcess(id) /\ id \notin keys(processContainer))
          => /\ ret'.op = "stopProcess"
             /\ ret'.errorMsg.cls = "str"
             /\ ret'.errorMsg.text = "No process ID with name"
             /\ ret'.errorMsg.id = id
             /\ processContainer' = processContainer
             /\ procs' = procs
             /\ pc' = "idle"]_vars

C3_Witness ==
    /\ ret.op = "stopProcess"
    /\ ret.errorMsg.cls = "str"
    /\ ret.errorMsg.id \notin keys(processContainer)
    /\ processContainer # <<>>

\* C4: stopAllProcesses() on an empty registry returns the nothing-running
\* error and leaves the registry empty and every process alone; it returns an
\* error only when the registry is empty.
C4_StopAllOnEmpty ==
    [][/\ (stopAllProcesses /\ processContainer = <<>>)
          => /\ ret'.op = "stopAllProcesses"
             /\ ret'.errorMsg.cls = "str"
             /\ processContainer' = <<>>
             /\ procs' = procs
             /\ pc' = "idle"
       /\ (stopAllProcesses /\ processContainer # <<>>)
          => /\ ret' = ret
             /\ pc' = "terminate"
       /\ (ret'.op = "stopAllProcesses" /\ ret'.errorMsg # None)
          => processContainer = <<>>]_vars

C4_Witness ==
    /\ ret.op = "stopAllProcesses"
    /\ ret.errorMsg.cls = "str"
    /\ procs # <<>>

\* C5: stopAllProcesses() on a registry with at least one entry stops every
\* Process of the registry, whatever each of them does on terminate, and
\* returns with the registry empty.
C5_StopAllStopsEveryProcess ==
    [][/\ (stopAllProcesses /\ processContainer # <<>>)
          => /\ frame'.op = "stopAllProcesses"
             /\ pc' = "terminate"
       /\ (frame.op = "stopAllProcesses" /\ pc' # "idle")
          => processContainer' = processContainer
       /\ (frame.op = "stopAllProcesses" /\ pc' = "idle")
          => /\ \A p \in registered(processContainer) :
                   /\ procs'[p].processHandler = "Deleted"
                   /\ Len(procs'[p].calls) >= 2
                   /\ procs'[p].calls[1] = "terminate"
             /\ processContainer' = <<>>
             /\ ret'.op = "stopAllProcesses"
             /\ ret'.errorMsg = None
             /\ ret'.raised = None]_vars

C5_Witness ==
    /\ ret.op = "stopAllProcesses"
    /\ ret.errorMsg = None
    /\ ret.log = <<"info: process killed", "info: process terminated">>
    /\ processContainer = <<>>

\* C6: when stopProcess(id) stops a registered process that exits within the
\* grace period after terminate, the id is no key any more and kill was never
\* called on the process.
C6_GracefulStopNeverKills ==
    ( /\ ret.op = "stopProcess"
      /\ ret.process # 0
      /\ ret.exitDelay <= WaitTimeout )
    => /\ ret.errorMsg = None
       /\ ret.raised = None
       /\ ret.id \notin keys(processContainer)
       /\ procs[ret.process].calls = <<"terminate", "wait">>

C6_Witness ==
    /\ ret.op = "stopProcess"
    /\ ret.process # 0
    /\ ret.exitDelay = WaitTimeout - 1
    /\ ret.log = <<"info: process terminated">>

\* C7: when stopProcess(id) stops a registered process that has not exited
\* when the grace period of 20 ends, kill is called on the process and the id
\* is no key any more.
C7_TimeoutStopKills ==
    ( /\ ret.op = "stopProcess"
      /\ ret.process # 0
      /\ ret.exitDelay > WaitTimeout )
    => /\ ret.errorMsg = None
       /\ ret.raised = None
       /\ ret.id \notin keys(processContainer)
       /\ procs[ret.process].calls = <<"terminate", "wait", "kill">>
       /\ procs[ret.process].os = "exited"

C7_Witness ==
    /\ ret.op = "stopProcess"
    /\ ret.process # 0
    /\ ret.exitDelay = WaitTimeout + 1
    /\ ret.log = <<"info: process killed">>
    /\ WaitTimeout = 20

\* the Process the stop() in progress works on
Stopping(p) == pc \in {"terminate", "wait", "kill", "del"} /\ frame.process = p

\* C8: a Process holds a handle only from a successful start to the end of its
\* stop: none without a successful start, and stop() calls terminate, then
\* wait, then kill only when the wait timed out, and gives the handle up last
\* on both paths, after which the Process holds none.
C8_HandleLifetime ==
    \A p \in DOMAIN procs :
        LET o == procs[p] IN
        /\ o.processHandler \in {"None", "Popen", "Deleted"}
        /\ o.processHandler = "None" => (o.os = "none" /\ o.calls = <<>>)
        /\ o.processHandler = "Popen" =>
              /\ o.os # "none"
              /\ ~ Stopping(p) => o.calls = <<>>
              /\ (Stopping(p) /\ pc = "terminate") => o.calls = <<>>
              /\ (Stopping(p) /\ pc = "wait") => o.calls = <<"terminate">>
              /\ (Stopping(p) /\ pc = "kill") =>
                    /\ o.calls = <<"terminate", "wait">>
                    /\ frame.exitDelay > WaitTimeout
              /\ (Stopping(p) /\ pc = "del") =>
                    o.calls = IF frame.exitDelay > WaitTimeout
                              THEN <<"terminate", "wait", "kill">>
                              ELSE <<"terminate", "wait">>
        /\ o.processHandler = "Deleted" =>
              /\ ~ Stopping(p)
              /\ o.os = "exited"
              /\ o.calls \in { <<"terminate", "wait">>, <<"terminate", "wait", "kill">> }

C8_Witness ==
    /\ \E p \in DOMAIN procs :
          /\ procs[p].processHandler = "Deleted"
          /\ procs[p].calls = <<"terminate", "wait">>
    /\ \E p \in DOMAIN procs :
          /\ procs[p].processHandler = "Deleted"
          /\ procs[p].calls = <<"terminate", "wait", "kill">>

\* C9: when the spawn raises, start() raises nothing, returns an error that is
\* not None and leaves the Process without a handle; when the spawn succeeds
\* it returns None and the Process holds the handle.
C9_StartReportsSpawnFailure ==
    ( /\ pc = "idle"
      /\ ret.op = "startProcessFromFileName"
      /\ ret.process # 0 )
    => LET o == procs[ret.process]
           before == [o EXCEPT !.processHandler = "None", !.os = "none"]
           s == start(files, before)
       IN  /\ s.process.processHandler = o.processHandler
           /\ (s.process.os = "none") = (o.os = "none")
           /\ ret.raised = None
           /\ IF popenRaises(files, before)
              THEN /\ s.errorMsg # None
                   /\ ret.errorMsg.detail = s.errorMsg.cls
                   /\ o.processHandler = "None"
              ELSE /\ s.errorMsg = None
                   /\ ret.errorMsg = None
                   /\ o.processHandler = "Popen"

C9_Witness ==
    /\ pc = "idle"
    /\ ret.op = "startProcessFromFileName"
    /\ ret.process # 0
    /\ popenRaises(files, procs[ret.process])
    /\ \E p \in DOMAIN procs : procs[p].processHandler = "Popen"

\* C10: constructing a Process for an executable path that does not exist, or
\* with a given working directory that does not exist, fails with
\* FileNotFoundError, builds no object and creates or truncates no file; a
\* missing executable is reported whatever the working directory is.
C10_ConstructionNotFound ==
    /\ \A filename \in FileNames, id \in Ids, workingDirectory \in WorkingDirs :
          ( /\ pc = "idle"
            /\ \/ ~ exists(files, filename)
               \/ ~ workingDirectory.isNone /\ ~ exists(files, workingDirectory.path) )
          => LET c == ProcessInit(files, filename, id, workingDirectory) IN
             /\ c.raised.cls = "FileNotFoundError"
             /\ c.process = NoProcess
             /\ c.files = files
             /\ ~ exists(files, filename) =>
                   /\ c.raised.text = "File does not exists"
                   /\ c.raised.path = filename
             /\ exists(files, filename) =>
                   /\ c.raised.text = "Working directory does not exists"
                   /\ c.raised.path = workingDirectory.path
    /\ (ret.op = "startProcessFromFileName" /\ ret.errorMsg.cls = "FileNotFoundError")
          => /\ ret.process = 0
             /\ ~ exists(files, ret.errorMsg.path)

C10_Witness ==
    /\ ret.op = "startProcessFromFileName"
    /\ ret.errorMsg.cls = "FileNotFoundError"
    /\ ret.errorMsg.text = "Working directory does not exists"
    /\ DOMAIN files # DOMAIN InitialFiles

\* the entries of a container under id
entriesOf(container, id) == { i \in DOMAIN container : container[i].id = id }

\* C11: after a successful startProcessFromFileName(filename, id,
\* workingDirectory) the registry has exactly one entry for id, the entry is the
\* Process just started, and the log file <working directory>/<name without
\* extension>.log exists; it was opened before the process was spawned.
C11_SuccessfulStartRegistersOnce ==
    [][( /\ pc = "idle"
         /\ Len(procs') = Len(procs) + 1
         /\ ret'.errorMsg = None )
       => \A filename \in FileNames, id \in Ids, workingDirectory \in WorkingDirs :
             startProcessFromFileName(filename, id, workingDirectory)
             => LET new == Len(procs')
                    dir == IF workingDirectory.isNone THEN Cwd
                           ELSE normpath(workingDirectory.path)
                    base == basename(normpath(filename))
                    logFile == Append(dir, <<base[1], "log">>)
                IN  /\ ret'.process = new
                    /\ Cardinality(entriesOf(processContainer', id)) = 1
                    /\ getitem(processContainer', id) = new
                    /\ procs'[new].processHandler = "Popen"
                    /\ Len(base) = 2
                    /\ procs'[new].stdFile = logFile
                    /\ logFile \in DOMAIN files'
                    /\ files'[logFile] = ""
                    /\ \E i, j \in DOMAIN ret'.log :
                          /\ i < j
                          /\ ret'.log[i] = "info: new process created"
                          /\ ret'.log[j] = "info: process started"]_vars

C11_Witness ==
    /\ pc = "idle"
    /\ ret.op = "startProcessFromFileName"
    /\ ret.errorMsg = None
    /\ ret.process = 2
    /\ Len(processContainer) = 2
    /\ procs[ret.process].stdFile \in DOMAIN files
    /\ procs[ret.process].stdFile \notin DOMAIN InitialFiles

\* p holds a handle, was never told to stop, and neither the mapping nor the
\* stop in progress refers to it
Orphaned(ps, container, fr, p) ==
    /\ ps[p].processHandler = "Popen"
    /\ ps[p].calls = <<>>
    /\ ~ ps[p].stdFileClosed
    /\ p \notin registered(container)
    /\ fr.process # p
    /\ \A i \in DOMAIN fr.todo : fr.todo[i] # p

\* C12: a successful start under an id that is a key makes no uniqueness
\* check: the entry is overwritten in place and nothing else changes; the
\* Process it held keeps its handle and its open log file, is never sent
\* terminate or kill, and no later stopProcess or stopAllProcesses reaches it.
C12_DuplicateIdOrphansPrevious ==
    [][ /\ ( /\ pc = "idle"
             /\ Len(procs') = Len(procs) + 1
             /\ ret'.errorMsg = None
             /\ procs'[Len(procs')].id \in keys(processContainer) )
           => LET new == Len(procs')
                  id == procs'[new].id
                  old == getitem(processContainer, id)
              IN  /\ ret'.raised = None
                  /\ processContainer' =
                        [i \in DOMAIN processContainer |->
                            IF processContainer[i].id = id
                            THEN [id |-> id, process |-> new]
                            ELSE processContainer[i]]
                  /\ procs'[old] = procs[old]
                  /\ procs[old].processHandler = "Popen"
                  /\ Orphaned(procs', processContainer', frame', old)
        /\ \A p \in DOMAIN procs :
              Orphaned(procs, processContainer, frame, p)
              => Orphaned(procs', processContainer', frame', p) ]_vars

C12_Witness ==
    \E p \in DOMAIN procs :
        /\ Orphaned(procs, processContainer, frame, p)
        /\ procs[p].os = "running"
        /\ pc = "idle"
        /\ ret.op = "stopAllProcesses"
        /\ ret.errorMsg = None
        /\ processContainer = <<>>

\* The calls of the manager are sequential statements of one thread: a call
\* that was entered goes on with its next statement, and wait(20) returns after
\* at most its timeout. The caller of the manager is under no obligation.
FairSpec ==
    /\ Spec
    /\ WF_vars(stopTerminate)
    /\ WF_vars(\E delay \in ExitDelays : stopWait(delay))
    /\ WF_vars(stopKill)
    /\ WF_vars(stopDel)
    /\ WF_vars(stopAllClear)

\* C13: every stop() entered comes to its end: after terminate the wait ends
\* by exit or by timeout, a timeout is followed by kill, and the handle is
\* given up; so a stopProcess of a registered id and a stopAllProcesses of a
\* non-empty mapping return without error, the Process(es) they stopped having
\* exited or having been killed.
C13_StopCompletes ==
    \A op \in {"stopProcess", "stopAllProcesses"} :
        (pc # "idle" /\ frame.op = op)
        ~> ( /\ pc = "idle"
             /\ ret.op = op
             /\ ret.errorMsg = None
             /\ ret.raised = None
             /\ \A p \in DOMAIN procs :
                   (p = ret.process \/ (op = "stopAllProcesses" /\ procs[p].calls # <<>>))
                   => /\ procs[p].processHandler = "Deleted"
                      /\ procs[p].os = "exited"
                      /\ procs[p].calls \in {<<"terminate", "wait">>,
                                             <<"terminate", "wait", "kill">>} )

C13_Witness ==
    /\ pc = "idle"
    /\ ret.op = "stopAllProcesses"
    /\ ret.errorMsg = None
    /\ \E p, q \in DOMAIN procs :
          /\ procs[p].calls = <<"terminate", "wait", "kill">>
          /\ procs[q].calls = <<"terminate", "wait">>
          /\ procs[p].processHandler = "Deleted"
          /\ procs[q].processHandler = "Deleted"

\* ------------------------------------------------------- keyword functions
\* what a keyword hands back: the exception that left it (None when it
\* returned) and its value ("" for no value)
KeywordResult(raised, value) == [raised |-> raised, value |-> value]

\* raise AssertionError(errorMsg)
AssertionError(errorMsg) ==
    Error("AssertionError", errorMsg.text, errorMsg.path, errorMsg.id, errorMsg.cls)

\* mutant of start_simulation_process: the errorMsg is not looked at
start_simulation_process_NoRaise(r, ps) ==
    IF r.raised # None THEN KeywordResult(r.raised, "")
    ELSE IF r.process = 0 THEN KeywordResult(None, "")
    ELSE KeywordResult(None, ps[r.process].id)

\* start_simulation_process, after the call of startProcessFromFileName that
\* handed back r
start_simulation_process(r, ps) ==
    IF r.raised # None THEN KeywordResult(r.raised, "")
    ELSE IF r.errorMsg # None THEN KeywordResult(AssertionError(r.errorMsg), "")
    ELSE KeywordResult(None, ps[r.process].id)

\* stop_simulation_process, after the call of stopProcess that handed back r
stop_simulation_process(r) ==
    IF r.raised # None THEN KeywordResult(r.raised, "")
    ELSE IF r.errorMsg # None THEN KeywordResult(AssertionError(r.errorMsg), "")
    ELSE KeywordResult(None, "")

\* stop_all_simulation_processes, after the call of stopAllProcesses that
\* handed back r
stop_all_simulation_processes(r) ==
    IF r.raised # None THEN KeywordResult(r.raised, "")
    ELSE IF r.errorMsg # None THEN KeywordResult(AssertionError(r.errorMsg), "")
    ELSE KeywordResult(None, "")

\* C14: start_simulation_process returns the id it was given when construction
\* and spawn succeeded and raises when validation or spawn failed;
\* stop_simulation_process raises for an unknown id and returns nothing
\* otherwise; stop_all_simulation_processes raises on an empty mapping and
\* returns nothing otherwise: no failure of the manager is swallowed.
C14_KeywordsSurfaceFailures ==
    [][ /\ (pc = "idle" /\ Len(procs') = Len(procs) + 1 /\ ret'.errorMsg = None)
           => \A filename \in FileNames, id \in Ids, workingDirectory \in WorkingDirs :
                 startProcessFromFileName(filename, id, workingDirectory)
                 => start_simulation_process(ret', procs') = KeywordResult(None, id)
        /\ (pc' = "idle" /\ ret'.op = "startProcessFromFileName")
           => LET k == start_simulation_process(ret', procs')
                  started == /\ ret'.process # 0
                             /\ procs'[ret'.process].processHandler = "Popen"
              IN  /\ started <=> k.raised = None
                  /\ ~ started
                     => /\ k.raised.cls = "AssertionError"
                        /\ k.raised.detail \in {"FileNotFoundError", "ValueError",
                                                "OSError", "AssertionError"}
                        /\ k.value = ""
        /\ \A id \in Ids :
              (stopProcess(id) /\ id \notin keys(processContainer))
              => /\ stop_simulation_process(ret').raised.cls = "AssertionError"
                 /\ stop_simulation_process(ret').raised.id = id
        /\ (pc = "del" /\ pc' = "idle")
           => stop_simulation_process(ret') = KeywordResult(None, "")
        /\ (stopAllProcesses /\ processContainer = <<>>)
           => stop_all_simulation_processes(ret').raised.cls = "AssertionError"
        /\ (pc = "clear" /\ pc' = "idle")
           => stop_all_simulation_processes(ret') = KeywordResult(None, "") ]_vars

C14_Witness ==
    /\ pc = "idle"
    /\ ret.op = "startProcessFromFileName"
    /\ Len(procs) = 2
    /\ procs[1].processHandler = "None"
    /\ start_simulation_process(ret, procs) = KeywordResult(None, "JGP")

\* C15: no operation closes the log file opened by the constructor: the file
\* object of every Process stays open after a failed start(), after stop() on
\* the graceful and on the kill path, after stopProcess and stopAllProcesses.
C15_LogFileNeverClosed ==
    \A p \in DOMAIN procs :
        /\ ~ procs[p].stdFileClosed
        /\ procs[p].stdFile \in DOMAIN files

C15_Witness ==
    /\ pc = "idle"
    /\ ret.op \in {"stopProcess", "stopAllProcesses"}
    /\ ret.errorMsg = None
    /\ \E p, q \in DOMAIN procs :
          /\ procs[p].processHandler = "None"
          /\ ~ procs[p].stdFileClosed
          /\ procs[q].processHandler = "Deleted"
          /\ procs[q].calls = <<"terminate", "wait", "kill">>
          /\ ~ procs[q].stdFileClosed

\* C16: for every existing executable path, whatever its base name, and every
\* existing working directory, the constructor succeeds, opens the log file
\* <working directory>/<base name without extension>.log, and the display name
\* is the base name with its extension.
C16_ConstructionOpensLog ==
    pc = "idle"
    => \A filename \in FileNames, id \in Ids, workingDirectory \in WorkingDirs :
          ( /\ exists(files, filename)
            /\ ~ workingDirectory.isNone
            /\ normpath(workingDirectory.path) \in Dirs )
          => LET c == ProcessInit(files, filename, id, workingDirectory)
                 name == basename(normpath(filename))
                 stem == IF Len(name) > 1 THEN SubSeq(name, 1, Len(name) - 1)
                         ELSE name
                 logFile == Append(normpath(workingDirectory.path),
                                   Append(stem, STD_FILE_EXT))
             IN  /\ c.raised = None
                 /\ c.process.name = name
                 /\ c.process.stdFile = logFile
                 /\ logFile \in DOMAIN c.files

\* id was the key of a Process that stopProcess or stopAllProcesses stopped and
\* removed, and is no key now
Removed(id) ==
    /\ id \notin keys(processContainer)
    /\ \E p \in DOMAIN procs :
          /\ procs[p].id = id
          /\ procs[p].processHandler = "Deleted"

\* construction and spawn accept filename and workingDirectory, whatever the id
ValidArguments(fs, filename, workingDirectory) ==
    LET c == ProcessInit(fs, filename, "", workingDirectory) IN
    /\ c.raised = None
    /\ ~ popenRaises(c.files, c.process)

\* C17: an id may be used again once it was removed: after stopProcess(id) or
\* stopAllProcesses() removed it, a start under the same id with valid
\* arguments succeeds, and the mapping holds one entry for the id again, the new
\* Process.
C17_IdReusableAfterRemoval ==
    [][ \A id \in Ids :
           (pc = "idle" /\ pc' = "idle" /\ ret'.op = "startProcessFromFileName"
              /\ (ret' # ret \/ Len(procs') # Len(procs))
              /\ Removed(id))
           => \A filename \in FileNames, workingDirectory \in WorkingDirs :
                 ( /\ ValidArguments(files, filename, workingDirectory)
                   /\ startProcessFromFileName(filename, id, workingDirectory) )
                 => LET new == Len(procs) + 1 IN
                    /\ ret'.errorMsg = None
                    /\ ret'.raised = None
                    /\ ret'.process = new
                    /\ Len(procs') = new
                    /\ procs'[new].id = id
                    /\ procs'[new].processHandler = "Popen"
                    /\ procs'[new].os = "running"
                    /\ Cardinality(entriesOf(processContainer', id)) = 1
                    /\ getitem(processContainer', id) = new ]_vars

C17_Witness ==
    /\ pc = "idle"
    /\ ret.op = "startProcessFromFileName"
    /\ ret.errorMsg = None
    /\ ret.process = 2
    /\ procs[1].processHandler = "Deleted"
    /\ procs[1].id = procs[2].id
    /\ procs[2].processHandler = "Popen"
    /\ getitem(processContainer, procs[2].id) = 2

\* the constructor accepts filename when it is given a working directory
ValidExecutable(fs, filename) ==
    \E workingDirectory \in WorkingDirs :
        /\ ~ workingDirectory.isNone
        /\ ProcessInit(fs, filename, "", workingDirectory).raised = None

\* how many times the warning of an omitted working directory is in log
Warnings(log) ==
    Cardinality({ i \in DOMAIN log : log[i] = "warning: no working directory" })

\* C18: without a working directory and with a valid executable the
\* constructor succeeds, the working directory is the caller's current
\* directory, no existence check of it is made, and the warning is logged
\* exactly once; with a working directory given no warning is logged.
C18_OmittedWorkingDirectory ==
    pc = "idle"
    => /\ \A filename \in FileNames :
             LET c == ProcessInit(files, filename, "", NoDir) IN
             /\ c.raised.text # "Working directory does not exists"
             /\ ValidExecutable(files, filename)
                => /\ c.raised = None
                   /\ c.process.workingDirectory = Cwd
                   /\ SubSeq(c.process.stdFile, 1, Len(Cwd)) = Cwd
                   /\ Warnings(c.log) = 1
       /\ \A filename \in FileNames, workingDirectory \in WorkingDirs :
             ~ workingDirectory.isNone
             => Warnings(ProcessInit(files, filename, "", workingDirectory).log) = 0
       /\ ret.op = "startProcessFromFileName" /\ ret.process # 0
          => Warnings(ret.log)
               = IF procs[ret.process].workingDirectory = Cwd THEN 1 ELSE 0

C18_Witness ==
    /\ pc = "idle"
    /\ ret.op = "startProcessFromFileName"
    /\ ret.errorMsg = None
    /\ ret.process # 0
    /\ procs[ret.process].workingDirectory = Cwd
    /\ Warnings(ret.log) = 1
    /\ \E id \in Ids :
          ProcessInit(files, <<Work, Sim, CurDir, AppExe>>, id, NoDir).raised = None

\* C19: between calls every Process of the mapping holds its handle and was
\* never told to stop; stop() is only ever entered on a Process that holds its
\* handle, so the call of terminate never fails for want of one, and no
\* Process is stopped twice.
C19_RegisteredHaveHandle ==
    /\ pc = "idle"
       => \A p \in registered(processContainer) :
             /\ procs[p].processHandler = "Popen"
             /\ procs[p].calls = <<>>
    /\ pc = "terminate"
       => /\ procs[frame.process].processHandler = "Popen"
          /\ procs[frame.process].calls = <<>>
    /\ ret.raised = None
    /\ \A p \in DOMAIN procs :
          /\ Cardinality({ i \in DOMAIN procs[p].calls :
                              procs[p].calls[i] = "terminate" }) <= 1
          /\ Cardinality({ i \in DOMAIN procs[p].calls :
                              procs[p].calls[i] = "kill" }) <= 1
    /\ \A i, j \in DOMAIN processContainer :
          processContainer[i].process = processContainer[j].process => i = j

C19_Witness ==
    /\ pc = "terminate"
    /\ frame.op = "stopAllProcesses"
    /\ frame.todo = <<>>
    /\ Len(processContainer) = 2
    /\ procs[processContainer[1].process].processHandler = "Deleted"
    /\ procs[frame.process].processHandler = "Popen"

\* C20: stopProcess(id) of a registered id removes that entry and no other,
\* and removes it before stop() is entered; the other entries stay as they
\* are for the whole call and no other Process is sent terminate or kill.
C20_StopProcessFrame ==
    [][ /\ \A id \in Ids :
              (stopProcess(id) /\ id \in keys(processContainer))
              => LET p == getitem(processContainer, id) IN
                 /\ keys(processContainer') = keys(processContainer) \ {id}
                 /\ Len(processContainer') = Len(processContainer) - 1
                 /\ \A i \in DOMAIN processContainer :
                       processContainer[i].id # id
                       => \E j \in DOMAIN processContainer' :
                             processContainer'[j] = processContainer[i]
                 /\ procs' = procs
                 /\ procs[p].calls = <<>>
                 /\ pc' = "terminate"
                 /\ frame'.process = p
        /\ (pc # "idle" /\ frame.op = "stopProcess")
           => /\ processContainer' = processContainer
              /\ frame.process \notin registered(processContainer)
              /\ \A p \in DOMAIN procs :
                    p # frame.process
                    => /\ procs'[p].calls = procs[p].calls
                       /\ procs'[p].processHandler = procs[p].processHandler ]_vars

C20_Witness ==
    /\ pc = "idle"
    /\ ret.op = "stopProcess"
    /\ ret.errorMsg = None
    /\ ret.process # 0
    /\ procs[ret.process].calls = <<"terminate", "wait", "kill">>
    /\ Len(processContainer) = 1
    /\ procs[processContainer[1].process].calls = <<>>
    /\ procs[processContainer[1].process].os = "running"

============================================================================
